---- MODULE Spec2Model ----
(***************************************************************************)
(* Model of Calculator.py: the session of the differential-equation        *)
(* calculator (current_solution, solution_params and the widgets the       *)
(* handlers write), the three click handlers resolver_ecuacion,            *)
(* limpiar_ecuacion and mostrar_grafica_externa, the symbol buttons, and   *)
(* the background thread started by mostrar_grafica_externa, which runs    *)
(* worker() / crear_grafica_externa() concurrently with the handlers.      *)
(*                                                                         *)
(* Click handlers run one at a time; the worker threads interleave with    *)
(* them at every access to the shared variables.  The t0, y0 and tf text   *)
(* fields are freely editable by the user, so their contents at the time   *)
(* of a click are inputs of resolver_ecuacion and are not kept as state;   *)
(* the equation field is read-only and is state.  The clock that names the *)
(* exported files advances in SpecExport only; the other specifications    *)
(* describe what happens within one reading of it.                         *)
(***************************************************************************)
EXTENDS Integers, Sequences, FiniteSets, TLC

(***************************************************************************)
(* Bounds                                                                  *)
(***************************************************************************)
MaxEqLen == 2        \* longest equation text, in button presses
MaxClock == 2        \* last reading of the clock, in ticks

(***************************************************************************)
(* Program constants                                                       *)
(***************************************************************************)
NumPoints == 500     \* np.linspace(t0, tf, 500)

\* The clock is read in ticks of half a second.
TicksPerSecond == 2

\* Inputs of the session specification Spec: the buttons pressed (a subset of
\* botones) and the texts typed into the t0, y0 and tf fields.
SessionButtons == {"t"}
SessionT0 == {"0"}
SessionY0 == {"1"}
SessionTf == {"1", "2"}

\* Inputs of the export specification SpecExport: one solve request.
ExportTf == {"1"}

\* Inputs of the text specification SpecText: the buttons pressed.
TextButtons == {"-", "^", "t", "sin(t)"}

\* Inputs of the solve specification SpecSolve.
SolveButtons == {"t", "^"}
SolveTexts == {"", "x", "0", "1"}

\* Python's None (a record, so that it compares with the records stored).
None == [none |-> TRUE]

(***************************************************************************)
(* Expression compiler: eval(f"lambda t, y: {expr_str}", {...})            *)
(***************************************************************************)
Letters == {"t", "y", "s", "i", "n", "c", "o", "e", "x", "p", "l", "g"}
Digits == {"0", "1", "2", "3", "4", "5", "6", "7", "8", "9"}

\* The symbol buttons of the calculator.
botones == {"+", "-", "*", "/", "^",
            "t", "y", "(", ")", ".",
            "0", "1", "2", "3", "4",
            "5", "6", "7", "8", "9",
            "sin(t)", "cos(t)", "exp(t)", "log(t)"}

\* The characters a button appends to the equation text.
SymbolChars(b) ==
    CASE b = "sin(t)" -> <<"s", "i", "n", "(", "t", ")">>
      [] b = "cos(t)" -> <<"c", "o", "s", "(", "t", ")">>
      [] b = "exp(t)" -> <<"e", "x", "p", "(", "t", ")">>
      [] b = "log(t)" -> <<"l", "o", "g", "(", "t", ")">>
      [] OTHER -> <<b>>

RECURSIVE TextChars(_)
TextChars(text) ==
    IF text = <<>> THEN <<>>
    ELSE SymbolChars(Head(text)) \o TextChars(Tail(text))

\* ecuacion_input.value.replace("^", "**")
RECURSIVE ReplacePow(_)
ReplacePow(cs) ==
    IF cs = <<>> THEN <<>>
    ELSE (IF Head(cs) = "^" THEN <<"*", "*">> ELSE <<Head(cs)>>)
         \o ReplacePow(Tail(cs))

\* End of the run of characters of class cls that starts at position i.
RECURSIVE RunEnd(_, _, _)
RunEnd(cs, i, cls) ==
    IF i <= Len(cs) /\ cs[i] \in cls THEN RunEnd(cs, i + 1, cls) ELSE i

\* Python's tokenizer on the characters the buttons can produce.
RECURSIVE Tokenize(_, _)
Tokenize(cs, i) ==
    IF i > Len(cs) THEN <<>>
    ELSE IF cs[i] \in Letters
    THEN LET j == RunEnd(cs, i, Letters \cup Digits)
         IN <<[type |-> "NAME", text |-> SubSeq(cs, i, j - 1)]>>
            \o Tokenize(cs, j)
    ELSE IF cs[i] \in Digits
    THEN LET j == RunEnd(cs, i, Digits)
             lit == SubSeq(cs, i, j - 1)
             \* a decimal integer with a leading zero is only legal if all
             \* its digits are zeros
             ok == lit[1] # "0" \/ \A k \in 1..Len(lit) : lit[k] = "0"
         IN <<[type |-> IF ok THEN "NUMBER" ELSE "BAD", text |-> lit]>>
            \o Tokenize(cs, j)
    ELSE IF cs[i] \in {"*", "/"} /\ i < Len(cs) /\ cs[i + 1] = cs[i]
    THEN <<[type |-> cs[i] \o cs[i], text |-> <<>>]>> \o Tokenize(cs, i + 2)
    ELSE <<[type |-> cs[i], text |-> <<>>]>> \o Tokenize(cs, i + 1)

BinOps == {"+", "-", "*", "/", "**", "//"}
PrefixOps == {"+", "-"}

\* Recogniser of Python's expression grammar on those tokens.  Every parse
\* operator returns the position after the phrase, or 0 if there is none.
RECURSIVE PExpr(_, _), PRest(_, _), PUnary(_, _), PPrimary(_, _), PTrailers(_, _)
PExpr(ts, i) ==
    LET j == PUnary(ts, i) IN IF j = 0 THEN 0 ELSE PRest(ts, j)
PRest(ts, j) ==
    IF j <= Len(ts) /\ ts[j].type \in BinOps
    THEN LET k == PUnary(ts, j + 1) IN IF k = 0 THEN 0 ELSE PRest(ts, k)
    ELSE j
PUnary(ts, i) ==
    IF i > Len(ts) THEN 0
    ELSE IF ts[i].type \in PrefixOps THEN PUnary(ts, i + 1)
    ELSE PPrimary(ts, i)
PPrimary(ts, i) ==
    IF i > Len(ts) THEN 0
    ELSE IF ts[i].type \in {"NAME", "NUMBER"} THEN PTrailers(ts, i + 1)
    ELSE IF ts[i].type = "("
    THEN IF i < Len(ts) /\ ts[i + 1].type = ")" THEN PTrailers(ts, i + 2)
         ELSE LET j == PExpr(ts, i + 1)
              IN IF j # 0 /\ j <= Len(ts) /\ ts[j].type = ")"
                 THEN PTrailers(ts, j + 1) ELSE 0
    ELSE 0
PTrailers(ts, i) ==
    IF i <= Len(ts) /\ ts[i].type = "("
    THEN IF i < Len(ts) /\ ts[i + 1].type = ")" THEN PTrailers(ts, i + 2)
         ELSE LET j == PExpr(ts, i + 1)
              IN IF j # 0 /\ j <= Len(ts) /\ ts[j].type = ")"
                 THEN PTrailers(ts, j + 1) ELSE 0
    ELSE i

ExprTokens(text) == Tokenize(ReplacePow(TextChars(text)), 1)

\* eval() of the lambda raises SyntaxError iff the body is not an expression.
SyntaxOK(text) ==
    LET ts == ExprTokens(text)
    IN ts # <<>> /\ PExpr(ts, 1) = Len(ts) + 1

\* Names the lambda body can resolve: its parameters and the globals dict.
\* (eval() also puts __builtins__ into the dict; the buttons spell no builtin
\* name, their identifiers are runs of t, y and digits that may end in sin,
\* cos, exp or log.)
LambdaParams == {<<"t">>, <<"y">>}
EvalGlobals == {<<"s", "i", "n">>, <<"c", "o", "s">>,
                <<"e", "x", "p">>, <<"l", "o", "g">>}

NamesOf(text) ==
    LET ts == ExprTokens(text)
    IN {ts[k].text : k \in {n \in 1..Len(ts) : ts[n].type = "NAME"}}

UnknownNames(text) == NamesOf(text) \ (LambdaParams \cup EvalGlobals)

(***************************************************************************)
(* Numeric fields: float(t0_input.value) etc.                              *)
(***************************************************************************)
\* float(s) raises ValueError unless s is the text of a number.
IsFloat(s) == s \in {"0", "1", "2"}

ToFloat(s) ==
    CASE s = "0" -> 0
      [] s = "1" -> 1
      [] s = "2" -> 2

(***************************************************************************)
(* Messages                                                                *)
(***************************************************************************)
MsgMissing == "Todos los campos son obligatorios"
MsgSyntax == "La ecuacion tiene errores de sintaxis"
MsgName == "Variable no definida"
MsgNaN == "Los valores deben ser numeros"
MsgRange == "El tiempo final (tf) debe ser mayor que el tiempo inicial (t0)"
MsgNoSolve == "No se pudo resolver la ecuacion diferencial"
MsgNoSolution == "Primero debes resolver la ecuacion"

\* str(err) of an exception caught by the outer handler.
StrOf(exc) == "str(" \o exc \o ")"

\* show_error / show_success: the value and colour they give resultado_text.
show_error(message) == [value |-> <<"Error", message>>, color |-> "RED_600"]
show_success(tf) == [value |-> <<"y(tf)", tf>>, color |-> "GREEN_700"]

IsErrorText(r) == r.value # <<>> /\ r.value[1] = "Error"

(***************************************************************************)
(* State                                                                   *)
(***************************************************************************)
VARIABLES
    current_solution,   \* None, or the solution object stored by a solve
    solution_params,    \* [t0, tf, equation]
    ecuacion_input,     \* the equation text: the sequence of buttons pressed
    resultado_text,     \* [value, color]
    grafica_imagen,     \* [visible, src]: the in-process render
    boton_grafica,      \* [disabled]
    estado_grafica,     \* status text of the export
    pc_main,            \* position of the click handler that is running
    sol_local,          \* resolver_ecuacion's locals sol, t0, tf while it runs
    threads,            \* the worker threads: position and locals of each
    epoch_files,        \* files written by the exports that saw the
                        \* session as it is stored now
    entry_state,        \* the stored session when the running handler began
    after_clear,        \* "cleared" after a click on Limpiar, "exported" after
                        \* a click on Ver grafica that came next, else "no"
    ivp_invoked,        \* whether the last solve request called solve_ivp
    escaped,            \* whether an exception left resolver_ecuacion
    clock,              \* datetime.now(), in ticks
    files               \* the paths of the files in the calcediff directory

vars == <<current_solution, solution_params, ecuacion_input, resultado_text,
          grafica_imagen, boton_grafica, estado_grafica, pc_main, sol_local,
          threads, epoch_files, entry_state, after_clear, ivp_invoked,
          escaped, clock, files>>

\* The worker threads that can be alive at the same time.
Threads == {"w1", "w2"}

\* A thread slot with no thread running in it.
NoThread == [pc |-> "none", t0 |-> 0, tf |-> 0, ecuacion |-> <<>>,
             file |-> None, file_path |-> None, clean |-> FALSE]

\* The result object of solve_ivp(expr_lambda, (t0, tf), [y0], dense_output):
\* it is determined by the function and the three numbers.
Solution(eq, t0, y0, tf) == [ecuacion |-> eq, t0 |-> t0, y0 |-> y0, tf |-> tf]

Init ==
    /\ current_solution = None
    /\ solution_params = [t0 |-> 0, tf |-> 0, equation |-> <<>>]
    /\ ecuacion_input = <<>>
    /\ resultado_text = [value |-> <<>>, color |-> "GREEN_700"]
    /\ grafica_imagen = [visible |-> FALSE, src |-> None]
    /\ boton_grafica = [disabled |-> TRUE]
    /\ estado_grafica = ""
    /\ pc_main = "idle"
    /\ sol_local = None
    /\ threads = [w \in Threads |-> NoThread]
    /\ epoch_files = <<>>
    /\ entry_state = None
    /\ after_clear = "no"
    /\ ivp_invoked = FALSE
    /\ escaped = FALSE
    /\ clock = 0
    /\ files = {}

(***************************************************************************)
(* Sampling: np.linspace(t0, tf, 500) and sol.sol(t_vals)[0]               *)
(***************************************************************************)
\* The grid, in units of 1/(n-1) so that the points stay integers:
\* point i is t0 + (i-1)*(tf-t0)/(n-1).
linspace(t0, tf, n) == [i \in 1..n |-> t0 * (n - 1) + (i - 1) * (tf - t0)]

\* The samples a plot is drawn from: the grid and the dense solution of sol
\* evaluated on it.
Samples(sol, t0, tf) ==
    LET t_vals == linspace(t0, tf, NumPoints)
    IN [t_vals |-> t_vals,
        y_vals |-> [i \in 1..NumPoints |-> <<sol, t_vals[i]>>]]

(***************************************************************************)
(* Symbol buttons and clear                                                *)
(***************************************************************************)
\* An equation field that takes a typed character instead of a button symbol.
agregar_simbolo_typed(simbolo) ==
    /\ pc_main = "idle"
    /\ Len(ecuacion_input) < MaxEqLen
    /\ ecuacion_input' = ecuacion_input \o <<"<">>
    /\ after_clear' = "no"
    /\ UNCHANGED <<current_solution, solution_params, resultado_text,
                   grafica_imagen, boton_grafica, estado_grafica, pc_main,
                   sol_local, threads, epoch_files, entry_state, ivp_invoked,
                   escaped, clock, files>>

agregar_simbolo(simbolo) ==
    /\ pc_main = "idle"
    /\ Len(ecuacion_input) < MaxEqLen
    /\ ecuacion_input' = ecuacion_input \o <<simbolo>>
    /\ after_clear' = "no"
    /\ UNCHANGED <<current_solution, solution_params, resultado_text,
                   grafica_imagen, boton_grafica, estado_grafica, pc_main,
                   sol_local, threads, epoch_files, entry_state, ivp_invoked,
                   escaped, clock, files>>

\* A solve that stores a solution, or a clear, ends the period in which the
\* exports in flight and the files written see one and the same session.
Disturb(ths) == [w \in Threads |-> [ths[w] EXCEPT !.clean = FALSE]]

\* A clear that forgets to empty current_solution.
limpiar_ecuacion_keeps ==
    /\ pc_main = "idle"
    /\ ecuacion_input' = <<>>
    /\ resultado_text' = [resultado_text EXCEPT !.value = <<>>]
    /\ grafica_imagen' = [grafica_imagen EXCEPT !.visible = FALSE]
    /\ boton_grafica' = [disabled |-> TRUE]
    /\ after_clear' = "cleared"
    /\ UNCHANGED <<current_solution, solution_params, estado_grafica,
                   pc_main, sol_local, threads, epoch_files, entry_state,
                   ivp_invoked, escaped, clock, files>>

\* The click on Limpiar.  It also empties the t0, y0 and tf fields, which are
\* inputs here.
limpiar_ecuacion ==
    /\ pc_main = "idle"
    /\ ecuacion_input' = <<>>
    /\ resultado_text' = [resultado_text EXCEPT !.value = <<>>]
    /\ grafica_imagen' = [grafica_imagen EXCEPT !.visible = FALSE]
    /\ current_solution' = None
    /\ boton_grafica' = [disabled |-> TRUE]
    /\ threads' = Disturb(threads)
    /\ epoch_files' = <<>>
    /\ after_clear' = "cleared"
    /\ UNCHANGED <<solution_params, estado_grafica, pc_main, sol_local,
                   entry_state, ivp_invoked, escaped, clock, files>>

(***************************************************************************)
(* resolver_ecuacion                                                       *)
(***************************************************************************)
\* What solve_ivp can do with a function whose names all resolve.
IvpOutcomes == {"success", "failed", "raise"}
\* What the in-process render (temporary file, matplotlib) can do.
RenderOutcomes == {"ok", "raise"}

\* eval() only builds the lambda: it raises on a body that does not parse and
\* never looks a name up.
CompileRaises(eq) == IF SyntaxOK(eq) THEN "none" ELSE "SyntaxError"

\* The except clauses around eval(), and the message of each.
CompileHandlers == {"SyntaxError", "NameError"}
CompileMessage(exc) == IF exc = "SyntaxError" THEN MsgSyntax ELSE MsgName

\* The three float() conversions.
ParseRaises(a, b, c) ==
    IF IsFloat(a) /\ IsFloat(b) /\ IsFloat(c) THEN "none" ELSE "ValueError"

\* The except clause of the conversions naming another exception type.
ParseHandlers_other == {"TypeError"}

ParseHandlers == {"ValueError"}

\* expr_lambda: what eval() gives for the equation text, as far as the
\* handler can tell: whether eval() raises, and the names of the lambda body
\* that resolve neither to a parameter nor in the globals dict.
expr_lambda(eq) == [raises |-> CompileRaises(eq), unknown |-> UnknownNames(eq)]

\* solve_ivp calls the lambda: a name that does not resolve raises there.
IvpRaises(expr, ivp) ==
    IF expr.unknown # {} THEN "NameError"
    ELSE IF ivp = "raise" THEN "Exception"
    ELSE "none"

\* The range test written with < in place of <=.
InvalidRange_strict(t0, tf) == tf < t0

\* if tf <= t0: the range is rejected.
InvalidRange(t0, tf) == tf <= t0

\* An outer handler that catches ValueError only.
OuterHandles_narrow(exc) == exc = "ValueError"

\* except Exception as err: every exception raised in the handler.
OuterHandles(exc) == TRUE

\* Lines 270-324: the handler up to the test of sol.success, for the equation
\* text eq, its lambda expr and the field texts a, b, c.  ret is "error"
\* (show_error and return), "raise" (an exception reaches the outer handler)
\* or "continue" (a solution was computed).
resolver_try(eq, expr, a, b, c, ivp) ==
    IF eq = <<>> \/ a = "" \/ b = "" \/ c = ""
    THEN [ret |-> "error", msg |-> MsgMissing, ivp |-> FALSE]
    ELSE IF expr.raises # "none"
    THEN IF expr.raises \in CompileHandlers
         THEN [ret |-> "error", msg |-> CompileMessage(expr.raises),
               ivp |-> FALSE]
         ELSE [ret |-> "raise", msg |-> expr.raises, ivp |-> FALSE]
    ELSE IF ParseRaises(a, b, c) # "none"
    THEN IF ParseRaises(a, b, c) \in ParseHandlers
         THEN [ret |-> "error", msg |-> MsgNaN, ivp |-> FALSE]
         ELSE [ret |-> "raise", msg |-> ParseRaises(a, b, c), ivp |-> FALSE]
    ELSE IF InvalidRange(ToFloat(a), ToFloat(c))
    THEN [ret |-> "error", msg |-> MsgRange, ivp |-> FALSE]
    ELSE IF IvpRaises(expr, ivp) # "none"
    THEN [ret |-> "raise", msg |-> IvpRaises(expr, ivp), ivp |-> TRUE]
    ELSE IF ivp = "failed"
    THEN [ret |-> "error", msg |-> MsgNoSolve, ivp |-> TRUE]
    ELSE [ret |-> "continue", msg |-> "", ivp |-> TRUE]

\* The click on Resolver with the field texts a, b, c, up to and including
\* current_solution = sol (lines 270-328); expr is the lambda of the equation
\* text.
resolver_begin(expr, a, b, c, ivp) ==
    LET r == resolver_try(ecuacion_input, expr, a, b, c, ivp)
        sol == Solution(ecuacion_input, ToFloat(a), ToFloat(b), ToFloat(c))
    IN
    /\ pc_main = "idle"
    /\ ivp_invoked' = r.ivp
    /\ after_clear' = "no"
    /\ IF r.ret = "continue"
       THEN /\ current_solution' = sol
            /\ sol_local' = [sol |-> sol, t0 |-> ToFloat(a), tf |-> ToFloat(c)]
            /\ entry_state' = [current_solution |-> current_solution,
                               solution_params |-> solution_params]
            /\ pc_main' = "store"
            /\ threads' = Disturb(threads)
            /\ epoch_files' = <<>>
            /\ UNCHANGED <<resultado_text, escaped>>
       ELSE /\ IF r.ret = "error"
               THEN /\ resultado_text' = show_error(r.msg)
                    /\ UNCHANGED escaped
               ELSE IF OuterHandles(r.msg)
               THEN /\ resultado_text' = show_error(StrOf(r.msg))
                    /\ UNCHANGED escaped
               ELSE /\ escaped' = TRUE
                    /\ UNCHANGED resultado_text
            /\ UNCHANGED <<current_solution, sol_local, entry_state, pc_main,
                           threads, epoch_files>>
    /\ UNCHANGED <<solution_params, ecuacion_input, grafica_imagen,
                   boton_grafica, estado_grafica, clock, files>>

\* The rest of the handler (lines 331-365): the parameters, the result text,
\* the graph button and the in-process render.
resolver_store(render) ==
    /\ pc_main = "store"
    /\ solution_params' = [t0 |-> sol_local.t0, tf |-> sol_local.tf,
                           equation |-> ecuacion_input]
    /\ boton_grafica' = [disabled |-> FALSE]
    /\ estado_grafica' = "Haz clic en 'Ver grafica' para visualizar"
    /\ IF render = "ok"
       THEN /\ resultado_text' = show_success(sol_local.tf)
            /\ grafica_imagen' =
                   [visible |-> TRUE,
                    src |-> [sol |-> sol_local.sol, t0 |-> sol_local.t0,
                             tf |-> sol_local.tf]]
            /\ UNCHANGED escaped
       ELSE /\ IF OuterHandles("Exception")
               THEN /\ resultado_text' = show_error(StrOf("Exception"))
                    /\ UNCHANGED escaped
               ELSE /\ resultado_text' = show_success(sol_local.tf)
                    /\ escaped' = TRUE
            /\ UNCHANGED grafica_imagen
    /\ pc_main' = "idle"
    /\ sol_local' = None
    /\ entry_state' = None
    /\ threads' = Disturb(threads)
    /\ epoch_files' = <<>>
    /\ UNCHANGED <<current_solution, ecuacion_input, after_clear,
                   ivp_invoked, clock, files>>

(***************************************************************************)
(* mostrar_grafica_externa and its worker thread                           *)
(***************************************************************************)
\* The thread slot threading.Thread(target=worker) takes.
FreeThreads == {w \in Threads : threads[w].pc = "none"}
NewThread == CHOOSE w \in FreeThreads : TRUE

\* The threads that are inside crear_grafica_externa.
Exporting == {w \in Threads :
                 threads[w].pc \in {"params", "check", "sample"}}

\* The click on Ver grafica; the button takes clicks only while enabled.
mostrar_grafica_externa ==
    /\ pc_main = "idle"
    /\ ~boton_grafica.disabled
    /\ IF current_solution = None
       THEN /\ resultado_text' = show_error(MsgNoSolution)
            /\ UNCHANGED <<boton_grafica, estado_grafica, threads>>
       ELSE /\ FreeThreads # {}
            /\ boton_grafica' = [disabled |-> TRUE]
            /\ estado_grafica' = "Generando grafica..."
            /\ threads' = [threads EXCEPT ![NewThread] =
                              [NoThread EXCEPT !.pc = "params", !.clean = TRUE]]
            /\ UNCHANGED resultado_text
    /\ after_clear' = IF after_clear = "cleared" THEN "exported" ELSE "no"
    /\ UNCHANGED <<current_solution, solution_params, ecuacion_input,
                   grafica_imagen, pc_main, sol_local, epoch_files,
                   entry_state, ivp_invoked, escaped, clock, files>>

WorkerFrame == <<current_solution, solution_params, ecuacion_input,
                 resultado_text, grafica_imagen, pc_main, sol_local,
                 entry_state, after_clear, ivp_invoked, escaped, clock>>

\* A worker that takes the parameters out of the session as it reads them.
worker_params_consume(w) ==
    /\ threads[w].pc = "params"
    /\ threads' = [threads EXCEPT ![w].pc = "check",
                                  ![w].t0 = solution_params.t0,
                                  ![w].tf = solution_params.tf,
                                  ![w].ecuacion = solution_params.equation]
    /\ solution_params' = [t0 |-> 0, tf |-> 0, equation |-> <<>>]
    /\ UNCHANGED <<current_solution, ecuacion_input, resultado_text,
                   grafica_imagen, pc_main, sol_local, entry_state,
                   after_clear, ivp_invoked, escaped, boton_grafica,
                   estado_grafica, epoch_files, clock, files>>

\* crear_grafica_externa, lines 129-131: the three reads of solution_params.
worker_params(w) ==
    /\ threads[w].pc = "params"
    /\ threads' = [threads EXCEPT ![w].pc = "check",
                                  ![w].t0 = solution_params.t0,
                                  ![w].tf = solution_params.tf,
                                  ![w].ecuacion = solution_params.equation]
    /\ UNCHANGED <<WorkerFrame, boton_grafica, estado_grafica, epoch_files,
                   files>>

\* Line 133: if current_solution is None: return None.
worker_check(w) ==
    /\ threads[w].pc = "check"
    /\ threads' = [threads EXCEPT ![w] =
                      IF current_solution = None
                      THEN [NoThread EXCEPT !.pc = "status"]
                      ELSE [@ EXCEPT !.pc = "sample"]]
    /\ UNCHANGED <<WorkerFrame, boton_grafica, estado_grafica, epoch_files,
                   files>>

\* datetime.now().strftime("%Y%m%d_%H%M%S"): the time of day to the second.
strftime(now) == now \div TicksPerSecond

\* os.path.join(temp_dir, f"grafica_{timestamp}.html")
FilePath(timestamp) == [dir |-> "calcediff", name |-> <<"grafica_", timestamp>>]

\* The element of html_content that shows the equation:
\* <div class="equation">y' = {ecuacion}</div>, character by character.
DivOpen == <<"<", "d", "i", "v", " ", "c", "l", "a", "s", "s", "=", "\"",
             "e", "q", "u", "a", "t", "i", "o", "n", "\"", ">">>
DivLabel == <<"y", "'", " ", "=", " ">>
DivClose == <<"<", "/", "d", "i", "v", ">">>
EquationDiv(ecuacion) ==
    DivOpen \o DivLabel \o TextChars(ecuacion) \o DivClose

\* What the HTML file is made of: the title, the labels and the data.
FileContent(sol, t0, tf, ecuacion) ==
    [sol |-> sol, t0 |-> t0, tf |-> tf, ecuacion |-> ecuacion]

\* Lines 137-231: the directory, the file name, the grid, the second read of
\* current_solution, the figure, the HTML text and the file.  If
\* current_solution is None by now current_solution.sol raises; that and any
\* other exception make crear_grafica_externa return None.  The locals of
\* crear_grafica_externa end with it; worker() keeps the file it returned.
worker_sample(w, env) ==
    /\ threads[w].pc = "sample"
    /\ IF current_solution = None \/ env = "raise"
       THEN /\ threads' = [threads EXCEPT ![w] =
                              [NoThread EXCEPT !.pc = "status"]]
            /\ UNCHANGED <<epoch_files, files>>
       ELSE LET content == FileContent(current_solution, threads[w].t0,
                                       threads[w].tf, threads[w].ecuacion)
                file_path == FilePath(strftime(clock))
            IN /\ threads' = [threads EXCEPT ![w] =
                      [NoThread EXCEPT !.pc = "status", !.file = content,
                                       !.file_path = file_path]]
               /\ files' = files \cup {file_path}
               /\ epoch_files' =
                      IF threads[w].clean
                      THEN <<content>> \o (IF epoch_files = <<>> THEN <<>>
                                           ELSE <<epoch_files[1]>>)
                      ELSE epoch_files
    /\ UNCHANGED <<WorkerFrame, boton_grafica, estado_grafica>>

\* worker(), lines 251-258: the status text for the three ways it can go.
worker_status(w, env) ==
    /\ threads[w].pc = "status"
    /\ estado_grafica' =
          IF threads[w].file = None THEN "Error al generar grafica"
          ELSE IF env = "ok" THEN "Grafica abierta en navegador"
          ELSE "Error: " \o StrOf("Exception")
    /\ threads' = [threads EXCEPT ![w] = [NoThread EXCEPT !.pc = "finally"]]
    /\ UNCHANGED <<WorkerFrame, boton_grafica, epoch_files, files>>

\* A finally clause that leaves the button as it is.
worker_finally_keeps(w) ==
    /\ threads[w].pc = "finally"
    /\ threads' = [threads EXCEPT ![w] = NoThread]
    /\ UNCHANGED <<WorkerFrame, boton_grafica, estado_grafica, epoch_files,
                   files>>

\* The finally clause (lines 259-262); the thread ends.
worker_finally(w) ==
    /\ threads[w].pc = "finally"
    /\ boton_grafica' = [disabled |-> FALSE]
    /\ threads' = [threads EXCEPT ![w] = NoThread]
    /\ UNCHANGED <<WorkerFrame, estado_grafica, epoch_files, files>>

worker(w) ==
    \/ worker_params(w)
    \/ worker_check(w)
    \/ \E env \in RenderOutcomes : worker_sample(w, env)
    \/ \E env \in RenderOutcomes : worker_status(w, env)
    \/ worker_finally(w)

\* The outcomes of solve_ivp to consider for a request: all of them if the
\* request gets as far as calling it.
IvpChoices(expr, a, b, c) ==
    IF resolver_try(ecuacion_input, expr, a, b, c, "success").ivp
    THEN IvpOutcomes ELSE {"success"}

\* The click on Resolver with field texts of the given sets.
resolver_ecuacion(T0s, Y0s, Tfs) ==
    \/ LET expr == expr_lambda(ecuacion_input)
       IN \E a \in T0s, b \in Y0s, c \in Tfs :
             \E ivp \in IvpChoices(expr, a, b, c) :
                resolver_begin(expr, a, b, c, ivp)
    \/ \E render \in RenderOutcomes : resolver_store(render)

Next ==
    \/ \E simbolo \in SessionButtons : agregar_simbolo(simbolo)
    \/ limpiar_ecuacion
    \/ resolver_ecuacion(SessionT0, SessionY0, SessionTf)
    \/ mostrar_grafica_externa
    \/ \E w \in Threads : worker(w)

Spec == Init /\ [][Next]_vars

\* Time passes: the next reading of datetime.now() is one tick later.
Tick ==
    /\ clock < MaxClock
    /\ clock' = clock + 1
    /\ UNCHANGED <<current_solution, solution_params, ecuacion_input,
                   resultado_text, grafica_imagen, boton_grafica,
                   estado_grafica, pc_main, sol_local, threads, epoch_files,
                   entry_state, after_clear, ivp_invoked, escaped, files>>

\* The session with the clock running: the exports of one solve request,
\* made at different times.
NextExport ==
    \/ \E simbolo \in SessionButtons : agregar_simbolo(simbolo)
    \/ limpiar_ecuacion
    \/ resolver_ecuacion(SessionT0, SessionY0, ExportTf)
    \/ mostrar_grafica_externa
    \/ \E w \in Threads : worker(w)
    \/ Tick

SpecExport == Init /\ [][NextExport]_vars

\* The session of one solve request, with every worker thread that has
\* been started getting its turn to run.
NextLive ==
    \/ \E simbolo \in SessionButtons : agregar_simbolo(simbolo)
    \/ limpiar_ecuacion
    \/ resolver_ecuacion(SessionT0, SessionY0, ExportTf)
    \/ mostrar_grafica_externa
    \/ \E w \in Threads : worker(w)

SpecLive ==
    Init /\ [][NextLive]_vars /\ \A w \in Threads : WF_vars(worker(w))

\* The equation field and the solves that store its text, on texts made of
\* a variable, a function and two operators.
NextText ==
    \/ \E simbolo \in TextButtons : agregar_simbolo(simbolo)
    \/ limpiar_ecuacion
    \/ resolver_ecuacion(SessionT0, SessionY0, ExportTf)

SpecText == Init /\ [][NextText]_vars

\* The solve pipeline alone, on more equation texts and field texts.
NextSolve ==
    \/ \E simbolo \in SolveButtons : agregar_simbolo(simbolo)
    \/ limpiar_ecuacion
    \/ resolver_ecuacion(SolveTexts, SolveTexts, SolveTexts)

SpecSolve == Init /\ [][NextSolve]_vars

(***************************************************************************)
(* Properties                                                              *)
(***************************************************************************)
AnyEmpty(a, b, c) == ecuacion_input = <<>> \/ a = "" \/ b = "" \/ c = ""
AllFloat(a, b, c) == IsFloat(a) /\ IsFloat(b) /\ IsFloat(c)

\* The step is the click on Resolver with the field texts a, b, c.
SolveClick(expr, a, b, c) ==
    \E ivp \in IvpOutcomes : resolver_begin(expr, a, b, c, ivp)

SessionTexts == SessionT0 \cup SessionY0 \cup SessionTf

\* C1: a solve that ends by reporting an error leaves current_solution and
\* solution_params as they were when the handler was entered.
C1_FailedSolveKeepsState ==
    [][ /\ LET expr == expr_lambda(ecuacion_input) IN
           \A a, b, c \in SessionTexts :
             (SolveClick(expr, a, b, c) /\ pc_main' = "idle")
                => UNCHANGED <<current_solution, solution_params>>
        /\ \A render \in RenderOutcomes :
             (resolver_store(render) /\ IsErrorText(resultado_text'))
                => /\ current_solution' = entry_state.current_solution
                   /\ solution_params' = entry_state.solution_params
      ]_vars

\* C2: at most one worker thread is inside crear_grafica_externa.
C2_OneExportInFlight == Cardinality(Exporting) <= 1

\* The solution and the parameters of a file come from the same solve.
SameSolve(f) ==
    /\ f.sol.t0 = f.t0
    /\ f.sol.tf = f.tf
    /\ f.sol.ecuacion = f.ecuacion

\* C3: every file written by crear_grafica_externa is built from a solution
\* and a (t0, tf, equation) triple stored by the same solve.
C3_ExportReadsCommittedState ==
    \A w \in Threads : threads[w].file # None => SameSolve(threads[w].file)

\* C4: a click on Ver grafica that comes right after a clear reports the
\* no-solution error, starts no worker thread and writes no file.
C4_ClearThenExportFails ==
    [][ (after_clear = "cleared" /\ mostrar_grafica_externa)
           => /\ resultado_text' = show_error(MsgNoSolution)
              /\ UNCHANGED <<threads, epoch_files, boton_grafica,
                             estado_grafica, current_solution>>
      ]_vars

C4_Witness ==
    /\ after_clear = "exported"
    /\ resultado_text = show_error(MsgNoSolution)

\* C5: a request with all fields present, an expression that compiles and
\* numbers with tf <= t0 fails with the range error, never calls solve_ivp
\* and leaves current_solution and solution_params unchanged.
C5_InvalidRangeRejected ==
    [][ LET expr == expr_lambda(ecuacion_input) IN
        \A a, b, c \in SolveTexts :
          ( /\ ~AnyEmpty(a, b, c)
            /\ AllFloat(a, b, c)
            /\ ToFloat(c) <= ToFloat(a)
            /\ expr.raises = "none"
            /\ SolveClick(expr, a, b, c) )
          => /\ resultado_text' = show_error(MsgRange)
             /\ ~ivp_invoked'
             /\ pc_main' = "idle"
             /\ UNCHANGED <<current_solution, solution_params>>
      ]_vars

C5_Witness ==
    /\ resultado_text = show_error(MsgRange)
    /\ ~ivp_invoked
    /\ pc_main = "idle"

\* C6: an equation text with an identifier other than t, y, sin, cos, exp,
\* log is rejected by the compile step with the unknown-symbol error, and
\* solve_ivp is not called with it.
C6_UnknownSymbolRejected ==
    [][ LET expr == expr_lambda(ecuacion_input) IN
        \A a, b, c \in SolveTexts :
          ( /\ ~AnyEmpty(a, b, c)
            /\ expr.unknown # {}
            /\ SolveClick(expr, a, b, c) )
          => /\ resultado_text' = show_error(MsgName)
             /\ ~ivp_invoked'
      ]_vars

\* C7 as stated: an empty field gives the missing-field error and a
\* non-numeric t0, y0 or tf gives the not-a-number error, whatever the
\* equation text is.
C7_FieldClassification ==
    [][ LET expr == expr_lambda(ecuacion_input) IN
        \A a, b, c \in SolveTexts :
          ( /\ ~AllFloat(a, b, c)
            /\ SolveClick(expr, a, b, c) )
          => resultado_text' = IF AnyEmpty(a, b, c)
                               THEN show_error(MsgMissing)
                               ELSE show_error(MsgNaN)
      ]_vars

\* C7 amended: an empty field gives the missing-field error; with no field
\* empty, a t0, y0 or tf that float() does not accept gives the
\* not-a-number error if the equation text compiles, and the syntax error if
\* it does not.
C7_FieldClassificationAmended ==
    [][ LET expr == expr_lambda(ecuacion_input) IN
        \A a, b, c \in SolveTexts :
          ( /\ ~AllFloat(a, b, c)
            /\ SolveClick(expr, a, b, c) )
          => resultado_text' = IF AnyEmpty(a, b, c)
                               THEN show_error(MsgMissing)
                               ELSE IF expr.raises = "none"
                               THEN show_error(MsgNaN)
                               ELSE show_error(MsgSyntax)
      ]_vars

C7_Witness ==
    /\ resultado_text = show_error(MsgNaN)
    /\ ecuacion_input # <<>>
    /\ pc_main = "idle"

\* The solve handler has ended its run with a failure: the click returned
\* without a solution, or the render after it raised.
SolveFailed ==
    \/ /\ LET expr == expr_lambda(ecuacion_input) IN
          \E a, b, c \in SolveTexts : SolveClick(expr, a, b, c)
       /\ pc_main' = "idle"
    \/ resolver_store("raise")

\* C8: no exception leaves resolver_ecuacion; a failure of any step ends
\* with an error message in the result text and the handler back at rest.
C8_NoFailureIsFatal ==
    [][ /\ ~escaped'
        /\ (pc_main' = "idle" /\ IsErrorText(resultado_text')) \/ ~SolveFailed
      ]_vars

C8_Witness ==
    /\ resultado_text = show_error(StrOf("NameError"))
    /\ ivp_invoked
    /\ ~escaped
    /\ pc_main = "idle"

SamplesOf(f) == Samples(f.sol, f.t0, f.tf)

\* C9: an export request and its worker leave current_solution and
\* solution_params unchanged, and two exports of the same stored solution
\* with no solve or clear in between write identical samples.
C9_ExportDoesNotMutate ==
    /\ [][ (mostrar_grafica_externa \/ \E w \in Threads : worker(w))
              => UNCHANGED <<current_solution, solution_params>> ]_vars
    /\ [](Len(epoch_files) = 2
             => SamplesOf(epoch_files[1]) = SamplesOf(epoch_files[2]))

C9_Witness ==
    /\ Len(epoch_files) = 2
    /\ current_solution # None

\* The grid of a plot drawn from solution sol between t0 and tf: NumPoints
\* points, evenly spaced and increasing, from the t0 to the tf of the solve
\* that produced sol (in the units of linspace).
GridOfSolve(x) ==
    LET t_vals == SamplesOf(x).t_vals
    IN /\ Len(t_vals) = NumPoints
       /\ \A i \in 1..(NumPoints - 1) :
             /\ t_vals[i] < t_vals[i + 1]
             /\ t_vals[i + 1] - t_vals[i] = t_vals[2] - t_vals[1]
       /\ t_vals[1] = x.sol.t0 * (NumPoints - 1)
       /\ t_vals[NumPoints] = x.sol.tf * (NumPoints - 1)

\* C10: the in-process render and every exported file sample the solution
\* on 500 evenly spaced increasing points from its t0 to its tf.
C10_SampleGrid ==
    /\ grafica_imagen.src # None => GridOfSolve(grafica_imagen.src)
    /\ \A w \in Threads : threads[w].file # None => GridOfSolve(threads[w].file)

\* C11: right after limpiar_ecuacion returns no solution is stored and
\* solution_params holds its initial values, as in a session in which
\* nothing was ever solved.
C11_ClearEmptiesSession ==
    [][ limpiar_ecuacion
           => /\ current_solution' = None
              /\ solution_params' = [t0 |-> 0, tf |-> 0, equation |-> <<>>]
      ]_vars

\* C12: every run of crear_grafica_externa that writes a file writes to a
\* path that no earlier or concurrent run has written.
C12_OwnFileName ==
    [][ \A w \in Threads :
          (worker_sample(w, "ok") /\ threads'[w].file # None)
             => threads'[w].file_path \notin files
      ]_vars

\* C13: the Ver grafica button is enabled only if a solution is stored.
C13_ButtonEnabledOnlyWithSolution ==
    ~boton_grafica.disabled => current_solution # None

\* The status texts worker() ends with.
FinalStatus == {"Grafica abierta en navegador", "Error al generar grafica",
                "Error: " \o StrOf("Exception")}

\* C14: with the worker threads scheduled fairly, every export request that
\* started a worker is resolved: the worker sets a final status text, and it
\* ends with the graph button enabled again.
C14_ExportEventuallyResolved ==
    \A w \in Threads :
       /\ (threads[w].pc = "params")
             ~> (threads[w].pc = "finally" /\ estado_grafica \in FinalStatus)
       /\ (threads[w].pc = "params")
             ~> (threads[w].pc = "none" /\ ~boton_grafica.disabled)

C14_Witness ==
    /\ estado_grafica = "Grafica abierta en navegador"
    /\ ~boton_grafica.disabled
    /\ current_solution # None
    /\ \A w \in Threads : threads[w].pc = "none"

\* The text a reader of the HTML finds from position i on: the characters up
\* to the next tag or character reference.
RECURSIVE HtmlText(_, _)
HtmlText(cs, i) ==
    IF i > Len(cs) \/ cs[i] \in {"<", "&"} THEN <<>>
    ELSE <<cs[i]>> \o HtmlText(cs, i + 1)

\* The equation element reads back as the label and the equation text,
\* followed by the closing tag and nothing else.
EmbedsVerbatim(ecuacion) ==
    LET html == EquationDiv(ecuacion)
        text == HtmlText(html, Len(DivOpen) + 1)
    IN /\ text = DivLabel \o TextChars(ecuacion)
       /\ SubSeq(html, Len(DivOpen) + Len(text) + 1, Len(html)) = DivClose

\* Every button symbol reads back from the HTML as it was written.
ButtonsEmbedVerbatim == \A b \in botones : EmbedsVerbatim(<<b>>)

\* C15: the equation text changes only by the append of one button symbol
\* or by the reset to empty, so it is a sequence of button symbols; each
\* button symbol, and the equation text a solve stores for the export to
\* embed in the HTML file, reads back from the file as it was written.
C15_EquationTextFromButtons ==
    /\ [][ ecuacion_input' # ecuacion_input
             => \/ ecuacion_input' = <<>>
                \/ \E b \in botones :
                      ecuacion_input' = Append(ecuacion_input, b)
         ]_vars
    /\ [](/\ \A k \in 1..Len(ecuacion_input) : ecuacion_input[k] \in botones
          /\ ButtonsEmbedVerbatim
          /\ EmbedsVerbatim(solution_params.equation))

C15_Witness ==
    /\ solution_params.equation = <<"-", "sin(t)">>
    /\ current_solution # None
    /\ pc_main = "idle"

====
